---- MODULE Spec2Model ----
(***************************************************************************)
(* FlowWAF anomaly detector: backend/analytics/ewma.py (detect_anomalies,  *)
(* load_or_train_baseline, get_baseline_key) over the baseline store of    *)
(* backend/analytics/storage.py (get_baseline, put_baseline).              *)
(*                                                                         *)
(* Numbers.  The code computes in float64.  The model computes in fixed    *)
(* point: a real x is the integer x * Scale.  A variance is held in units  *)
(* of 1 / Scale^2.  As float64 does, every operation rounds its result to  *)
(* the nearest number that can be held: means, variances, square roots and *)
(* z-scores.  The numeric floor 1e-6 of the code is below the resolution;  *)
(* it is modelled by the smallest positive fixed point number (StdFloor).  *)
(*                                                                         *)
(* Minutes are ISO-8601 strings of one format in the code, compared as     *)
(* strings; the model uses the naturals, which are ordered the same way.   *)
(***************************************************************************)
EXTENDS Integers, Sequences, FiniteSets, TLC

VARIABLES
    store,        \* the S3 bucket: storage key -> blob
    data_points,  \* argument of detect_anomalies: the batch
    alpha,        \* argument: smoothing factor, [num, den]
    sigma,        \* argument: threshold (fixed point)
    topk,         \* argument
    pc,           \* where the invocation is
    gi,           \* index of the group being processed in grouped_data
    baseline,     \* (baseline_mean, baseline_std) of the group being processed
    trained,      \* load_or_train_baseline trained that baseline
    anomalies,    \* the local list `anomalies`
    result,       \* what detect_anomalies returned, if it returned
    err,          \* the exception that ended the invocation, if any
    scores,       \* per processed group: the loop body's local values
    ncalls,       \* number of store calls (get_object, put_object) made
    store_error,  \* a store call failed with a transport error (ClientError)
    store0,       \* the bucket as it was when the invocation started
    history,      \* the batches of the invocations that returned before this one
    inv,          \* two concurrent invocations: each one's position and locals
    got,          \* what the last storage.get_baseline call returned
    put_log,      \* the storage.put_baseline calls made: caller, key and dict
    ioc_config,   \* the dict IOCMatcher was constructed from
    record,       \* argument of IOCMatcher.match
    match_out,    \* what IOCMatcher.match returned
    hnd,          \* an invocation of the detector handler: event, position, effects
    qry           \* a call of execute_athena_query: the service's answers, locals

vars == <<store, data_points, alpha, sigma, topk, pc, gi, baseline, trained,
          anomalies, result, err, scores, ncalls, store_error, store0, history,
          inv, got, put_log, ioc_config, record, match_out,
                   hnd, qry>>

\* What no step of a detect_anomalies invocation changes
outside == <<store0, history, inv, got, put_log, ioc_config, record, match_out,
                   hnd, qry>>

\* The variables of the detect_anomalies invocation, the bucket apart
detector ==
    <<data_points, alpha, sigma, topk, pc, gi, baseline, trained, anomalies,
      result, err, scores, ncalls, store_error, store0, history>>

-----------------------------------------------------------------------------
(* Bounds and input domains *)

MaxRows == 2
MaxTopK == 2

Scale == 100
StdFloor == 1

Abs(x) == IF x < 0 THEN -x ELSE x

EA == [metric |-> "requests", key |-> "ip1", subkey |-> "uri1"]
EB == [metric |-> "connections", key |-> "ip2", subkey |-> "uri2"]
EC == [metric |-> "requests", key |-> "host", subkey |-> "api/v1"]
ED == [metric |-> "requests", key |-> "host/api", subkey |-> "v1"]
EX == [metric |-> "requests", key |-> "1.1.1.1", subkey |-> "/pathA"]
EN == [metric |-> "requests", key |-> "new_ip", subkey |-> "new_uri"]

Entities == {EA, EC, ED}
AllEntities == {EA, EB, EC, ED, EX, EN}

\* Marks a row that has no 'subkey' field.
NoSubkey == "<no subkey>"

Row(e, minute, value) ==
    [minute |-> minute, key |-> e.key, subkey |-> e.subkey,
     value |-> value * Scale, metric |-> e.metric]

Minutes == 1..2
Values == {250, 4000}

GenericRows ==
    {[minute |-> m, key |-> e.key, subkey |-> e.subkey, value |-> v,
      metric |-> e.metric] : e \in Entities, m \in Minutes, v \in Values}

GenericBatches == UNION {[1..n -> GenericRows] : n \in 0..MaxRows}

\* ewma.py __main__, example 1
Example1 ==
    <<Row(EX, 1, 10), Row(EX, 2, 12), Row(EX, 3, 11), Row(EX, 4, 100),
      Row(EX, 5, 15)>>

\* test_ewma.py test_detect_anomalies_cold_start
ColdStartData == <<Row(EN, 1, 50), Row(EN, 2, 55), Row(EN, 3, 150)>>

\* test_ewma.py test_detect_anomalies_multiple_metrics
MultipleMetrics ==
    <<Row(EA, 1, 10), Row(EA, 2, 12), Row(EA, 3, 100),
      Row(EB, 1, 5), Row(EB, 2, 6), Row(EB, 3, 50)>>

\* A flat series of value b with one outlier v at position p of n
Flat(e, n, b, v, p) == [i \in 1..n |-> Row(e, i, IF i = p THEN v ELSE b)]

\* The outlier above the flat value, last and in the middle; and below it
FlatHigh == {Flat(EA, 4, 10, 100, 4), Flat(EA, 4, 10, 100, 3)}
FlatLow == {Flat(EA, 4, 100, 10, 4), Flat(EA, 4, 100, 10, 3)}
FlatBatches == FlatHigh \cup FlatLow

\* A row without a subkey next to a row whose subkey is the default
DefaultSubkey ==
    <<[minute |-> 1, key |-> "ip1", subkey |-> NoSubkey, value |-> 1000,
       metric |-> "requests"],
      [minute |-> 2, key |-> "ip1", subkey |-> "N/A", value |-> 4000,
       metric |-> "requests"]>>

ScenarioBatches ==
    {Example1, ColdStartData, MultipleMetrics, DefaultSubkey} \cup FlatBatches

Batches == GenericBatches \cup ScenarioBatches

Alphas == {[num |-> 3, den |-> 10]}
Sigmas == {1 * Scale, 3 * Scale}
TopKs == 0..MaxTopK

-----------------------------------------------------------------------------
(* Fixed point arithmetic *)

RoundDiv(n, d) == (2 * n + d) \div (2 * d)

\* The least r in lo..hi with r * r >= n, by bisection (the midpoint is bound
\* as a value, so that it is computed once at each step)
RECURSIVE SqrtSearch(_, _, _)
SqrtSearch(n, lo, hi) ==
    IF lo >= hi THEN lo
    ELSE CHOOSE r \in {IF mid * mid >= n THEN SqrtSearch(n, lo, mid)
                       ELSE SqrtSearch(n, mid + 1, hi) :
                       mid \in {(lo + hi) \div 2}} : TRUE

\* math.sqrt / np.sqrt, rounded to the nearest
Sqrt(n) ==
    CHOOSE r \in {IF c > 0 /\ n <= (c - 1) * (c - 1) + (c - 1) THEN c - 1 ELSE c :
                  c \in {SqrtSearch(n, 0, 46340)}} : TRUE

\* x * m / d without overflowing on x * m
MulDivRound(x, m, d) == (x \div d) * m + RoundDiv((x % d) * m, d)

-----------------------------------------------------------------------------
(* Grouping: detect_anomalies, the loop over data_points and the sort *)

\* dp.get('subkey', 'N/A')
Subkey(dp) == IF dp.subkey = NoSubkey THEN "N/A" ELSE dp.subkey

\* group_key = (metric, key, subkey)
GroupKey(dp) == [metric |-> dp.metric, key |-> dp.key, subkey |-> Subkey(dp)]

\* The keys of grouped_data in insertion order (a dict keeps it)
RECURSIVE GroupOrder(_)
GroupOrder(dps) ==
    IF dps = <<>> THEN <<>>
    ELSE LET front == GroupOrder(SubSeq(dps, 1, Len(dps) - 1))
             g == GroupKey(dps[Len(dps)])
         IN  IF \E i \in 1..Len(front) : front[i] = g THEN front
             ELSE Append(front, g)

\* grouped_data[group_key]: the rows of the group, in input order
GroupRows(dps, g) ==
    LET InGroup(dp) == GroupKey(dp) = g
    IN  SelectSeq(dps, InGroup)

\* list.sort(key=minute) is stable: insert each row after the rows whose
\* minute is not greater
InsertByMinute(sorted, dp) ==
    LET n == Cardinality({i \in 1..Len(sorted) : sorted[i].minute <= dp.minute})
    IN  SubSeq(sorted, 1, n) \o <<dp>> \o SubSeq(sorted, n + 1, Len(sorted))

RECURSIVE SortByMinute(_)
SortByMinute(rows) ==
    IF rows = <<>> THEN <<>>
    ELSE InsertByMinute(SortByMinute(SubSeq(rows, 1, Len(rows) - 1)),
                        rows[Len(rows)])

\* Faulty variant: the group is left in input order
UnsortedGroup(dps, g) == GroupRows(dps, g)

\* group.sort(key=lambda x: x['minute'])
SortedGroup(dps, g) == SortByMinute(GroupRows(dps, g))

\* values = pd.Series([d['value'] for d in group], ...)
SeriesValues(group) == [i \in 1..Len(group) |-> group[i].value]

\* values.iloc[-1]
CurrentValue(group) == group[Len(group)].value

\* A pd.Series built from Python ints has dtype int64; one float makes it
\* float64.  The inputs are whole numbers exactly when they are ints.
IsInt(v) == v % Scale = 0
IntDtype(values) == \A i \in 1..Len(values) : IsInt(values[i])

-----------------------------------------------------------------------------
(* EWMA baseline model *)

\* updated_mean = (1 - alpha) * baseline_mean + alpha * current_value
UpdatedMean(a, mean, value) ==
    RoundDiv((a.den - a.num) * mean + a.num * value, a.den)

\* Faulty variant: the variance is not updated with the value under test
UpdatedVarStale(a, std, dev) ==
    RoundDiv((a.den - a.num) * std * std, a.den)

\* (1 - alpha) * baseline_std**2 + alpha * (current_value - updated_mean)**2
UpdatedVar(a, std, dev) ==
    RoundDiv((a.den - a.num) * std * std + a.num * dev * dev, a.den)

\* Faulty variant: a std below the floor is raised above the floor
ClampOver(std) == IF std < StdFloor THEN 2 * StdFloor ELSE std

\* if updated_std < 1e-6: updated_std = 1e-6
Clamp(std) == IF std < StdFloor THEN StdFloor ELSE std

UpdatedStd(a, std, dev) == Clamp(Sqrt(UpdatedVar(a, std, dev)))

\* score = (current_value - updated_mean) / updated_std
Score(value, mean, std) ==
    LET d == value - mean
    IN  IF d < 0 THEN -RoundDiv(-d * Scale, std) ELSE RoundDiv(d * Scale, std)

\* Faulty variant: the comparison without abs() misses the low side
IsAnomalySigned(score, s) == score > s

\* abs(score) > sigma
IsAnomaly(score, s) == Abs(score) > s

\* "high" if score > 0 else "low"
Mode(score) == IF score > 0 THEN "high" ELSE "low"

\* series.ewm(alpha=alpha, adjust=False).mean().iloc[-1]:
\* y[0] = x[0], y[i] = (1 - alpha) * y[i-1] + alpha * x[i]
RECURSIVE EwmaMean(_, _)
EwmaMean(values, a) ==
    IF Len(values) = 1 THEN values[1]
    ELSE UpdatedMean(a, EwmaMean(SubSeq(values, 1, Len(values) - 1), a),
                     values[Len(values)])

\* The state of pandas' ewm variance after the values: cov is the biased
\* weighted variance, sw2 the sum of the squared (normalised) weights in
\* units of 1/10000.
RECURSIVE EwmCov(_, _)
EwmCov(values, a) ==
    IF Len(values) = 1 THEN [mean |-> values[1], cov |-> 0, sw2 |-> 10000]
    ELSE LET old == EwmCov(SubSeq(values, 1, Len(values) - 1), a)
             x == values[Len(values)]
             mean == UpdatedMean(a, old.mean, x)
             keep == a.den - a.num
         IN  [mean |-> mean,
              cov |-> RoundDiv(keep * (old.cov + (old.mean - mean) * (old.mean - mean))
                              + a.num * (x - mean) * (x - mean), a.den),
              sw2 |-> RoundDiv(keep * keep * old.sw2 + a.num * a.num * 10000,
                               a.den * a.den)]

\* np.sqrt(series.ewm(alpha=alpha, adjust=False).var()).iloc[-1]: var() is
\* bias corrected (bias=False), cov / (1 - sw2); for at least 2 values
EwmaStd(values, a) ==
    LET st == EwmCov(values, a)
    IN  Sqrt(MulDivRound(st.cov, 10000, 10000 - st.sw2))

\* The recurrences of the update (updated_mean, updated_std before the clamp)
\* applied over the values in turn, from mean = the first value and std = 0
RECURSIVE TrainedByRecurrences(_, _)
TrainedByRecurrences(values, a) ==
    IF Len(values) = 1 THEN [mean |-> values[1], std |-> 0]
    ELSE LET old == TrainedByRecurrences(SubSeq(values, 1, Len(values) - 1), a)
             x == values[Len(values)]
             mean == UpdatedMean(a, old.mean, x)
         IN  [mean |-> mean, std |-> Sqrt(UpdatedVar(a, old.std, x - mean))]

\* load_or_train_baseline, the training branch
TrainedBaseline(values, a) ==
    IF Len(values) < 2
    THEN [mean |-> values[Len(values)], std |-> 0]
    ELSE [mean |-> EwmaMean(values, a), std |-> EwmaStd(values, a)]

-----------------------------------------------------------------------------
(* Baseline store *)

\* f"baselines/{metric}/{key}/{subkey}.json"
get_baseline_key(g) ==
    "baselines/" \o g.metric \o "/" \o g.key \o "/" \o g.subkey \o ".json"

\* hashlib.sha1(...).hexdigest(): a fixed-length hex string, taken to be
\* injective; the digest of s is written sha1<s>
Sha1(s) == "sha1<" \o s \o ">"

\* storage._generate_s3_key (no caller in the detector)
generate_s3_key(g) ==
    "baselines/" \o g.metric \o "/" \o Sha1(g.key) \o "/" \o Sha1(g.subkey)
        \o ".json"

StorageKeys == {get_baseline_key(g) : g \in AllEntities}
                 \cup {get_baseline_key(GroupKey(DefaultSubkey[1]))}

\* The characters of the decimal digits
DigitChars == <<"0", "1", "2", "3", "4", "5", "6", "7", "8", "9">>
IsDigit(c) == \E d \in 1..10 : DigitChars[d] = c
DigitValue(c) == (CHOOSE d \in 1..10 : DigitChars[d] = c) - 1

\* The decimal digits of a natural number, most significant first
RECURSIVE NatText(_)
NatText(n) ==
    IF n < 10 THEN <<DigitChars[n + 1]>>
    ELSE Append(NatText(n \div 10), DigitChars[(n % 10) + 1])

\* The value of a sequence of decimal digits
RECURSIVE NatValue(_)
NatValue(t) ==
    IF t = <<>> THEN 0
    ELSE 10 * NatValue(SubSeq(t, 1, Len(t) - 1)) + DigitValue(t[Len(t)])

\* Faulty variant: the number is written with one digit after the point
JsonNumberShort(x) ==
    (IF x < 0 THEN <<"-">> ELSE <<>>) \o NatText(Abs(x) \div Scale) \o <<".">>
        \o <<DigitChars[((Abs(x) % Scale) \div 10) + 1]>>

\* json.dumps of a float: float.__repr__, the shortest decimal text that
\* reads back as the same float; here sign, integer part, point and the
\* digits after the point without trailing zeros (at least one)
JsonNumber(x) ==
    LET frac == Abs(x) % Scale
    IN  (IF x < 0 THEN <<"-">> ELSE <<>>) \o NatText(Abs(x) \div Scale) \o <<".">>
          \o (IF frac % 10 = 0 THEN <<DigitChars[(frac \div 10) + 1]>>
              ELSE <<DigitChars[(frac \div 10) + 1], DigitChars[(frac % 10) + 1]>>)

\* json.loads of a number text: float(text)
ParseNumber(t) ==
    LET neg == t[1] = "-"
        body == IF neg THEN SubSeq(t, 2, Len(t)) ELSE t
        dot == CHOOSE i \in 1..Len(body) : body[i] = "."
        whole == NatValue(SubSeq(body, 1, dot - 1))
        digits == SubSeq(body, dot + 1, Len(body))
        frac == IF Len(digits) = 1 THEN 10 * NatValue(digits) ELSE NatValue(digits)
        v == whole * Scale + frac
    IN  IF neg THEN -v ELSE v

\* What an object of the bucket holds.  kind:
\*   "absent"   no object under the key (NoSuchKey)
\*   "record"   the JSON of a dict with 'mean' and 'std'
\*   "badjson"  UTF-8 text that is not JSON
\*   "badutf8"  bytes that are not UTF-8
\*   "falsy"    JSON of a falsy value: {}, [], null, 0
\*   "norecord" JSON of a truthy value without 'mean' or 'std'
\* mean and std are the number texts of a record, empty for the other kinds;
\* last_updated tells whether the record has that field.
Blob(kind, mean, std, stamped) ==
    [kind |-> kind, mean |-> mean, std |-> std, last_updated |-> stamped]

NoText == <<>>
Absent == Blob("absent", NoText, NoText, FALSE)

\* json.dumps of the dict put_baseline is given
RecordBlob(mean, std, stamped) ==
    Blob("record", JsonNumber(mean), JsonNumber(std), stamped)

\* The dict put_baseline is given: {'mean': .., 'std': ..}, with or without
\* 'last_updated'
Dict(mean, std, stamped) == [mean |-> mean, std |-> std, last_updated |-> stamped]
DictBlob(d) == RecordBlob(d.mean, d.std, d.last_updated)

\* json.loads of a record: the dict get_baseline returns
StoredBaseline(blob) ==
    [mean |-> ParseNumber(blob.mean), std |-> ParseNumber(blob.std)]

\* Faulty variant: the object is created only when the key is free
PutIfAbsent(st, k, blob) ==
    IF st[k].kind = "absent" THEN [st EXCEPT ![k] = blob] ELSE st

\* s3_client.put_object(Bucket, Key, Body): an unconditional overwrite
PutObject(st, k, blob) == [st EXCEPT ![k] = blob]

EmptyStore == [k \in StorageKeys |-> Absent]

\* The bucket as detect_anomalies may find it
TrainedStore == [k \in StorageKeys |-> RecordBlob(10 * Scale, 1 * Scale, TRUE)]

InitStores ==
    {EmptyStore, TrainedStore}
    \cup {[TrainedStore EXCEPT ![get_baseline_key(EA)] = Blob(kind, NoText, NoText, FALSE)] :
            kind \in {"badjson", "badutf8", "falsy", "norecord"}}

\* storage.get_baseline: what it returns or raises for the object found
GetOutcome(blob) ==
    CASE blob.kind = "absent"   -> "None"
      [] blob.kind = "badjson"  -> "None"
      [] blob.kind = "badutf8"  -> "UnicodeDecodeError"
      [] blob.kind = "falsy"    -> "falsy"
      [] blob.kind = "norecord" -> "dict"
      [] blob.kind = "record"   -> "dict"

\* Faulty variant: a stored record is not used, the baseline is trained anew
LoadOutcomeRetrain(blob) ==
    CASE GetOutcome(blob) = "UnicodeDecodeError" -> "UnicodeDecodeError"
      [] GetOutcome(blob) \in {"None", "falsy"} -> "train"
      [] GetOutcome(blob) = "dict" /\ blob.kind = "record" -> "train"
      [] OTHER -> "KeyError"

\* load_or_train_baseline on what get_baseline returned:
\* `if baseline_data:` then baseline_data['mean'], baseline_data['std']
LoadOutcome(blob) ==
    CASE GetOutcome(blob) = "UnicodeDecodeError" -> "UnicodeDecodeError"
      [] GetOutcome(blob) \in {"None", "falsy"} -> "train"
      [] GetOutcome(blob) = "dict" /\ blob.kind = "record" -> "loaded"
      [] OTHER -> "KeyError"

-----------------------------------------------------------------------------
(* Ranking: anomalies.sort(key=abs(score), reverse=True); anomalies[:topk] *)

\* Faulty variant: a record goes before the records of equal abs(score)
InsertBeforeEqual(sorted, a) ==
    LET n == Cardinality({i \in 1..Len(sorted) :
                            Abs(sorted[i].score) > Abs(a.score)})
    IN  SubSeq(sorted, 1, n) \o <<a>> \o SubSeq(sorted, n + 1, Len(sorted))

\* A stable descending sort: insert each record after the records whose
\* abs(score) is not smaller
InsertByScore(sorted, a) ==
    LET n == Cardinality({i \in 1..Len(sorted) :
                            Abs(sorted[i].score) >= Abs(a.score)})
    IN  SubSeq(sorted, 1, n) \o <<a>> \o SubSeq(sorted, n + 1, Len(sorted))

RECURSIVE SortByScore(_)
SortByScore(as) ==
    IF as = <<>> THEN <<>>
    ELSE InsertByScore(SortByScore(SubSeq(as, 1, Len(as) - 1)), as[Len(as)])

\* Faulty variant: the cut keeps the tail of the list
TruncateTail(as, k) ==
    SubSeq(as, IF k < Len(as) THEN Len(as) - k + 1 ELSE 1, Len(as))

\* anomalies[:topk], topk >= 0
Truncate(as, k) == SubSeq(as, 1, IF k < Len(as) THEN k ELSE Len(as))

Ranked(as, k) == Truncate(SortByScore(as), k)

-----------------------------------------------------------------------------
(* The invocation *)

NoResult == [returned |-> FALSE, list |-> <<>>]
Returned(list) == [returned |-> TRUE, list |-> list]

NoBaseline == [mean |-> 0, std |-> 0]

Groups == GroupOrder(data_points)
CurGroupKey == Groups[gi]
CurGroup == SortedGroup(data_points, CurGroupKey)
CurStorageKey == get_baseline_key(CurGroupKey)

\* The values of the variables of the parts that are not running
IdleInv == <<>>
IdleGot == [called |-> FALSE]
IdleIoc == [called |-> FALSE]
IdleHnd == [pc |-> "idle"]
IdleQry == [pc |-> "idle"]

Idle ==
    /\ inv = IdleInv
    /\ got = IdleGot
    /\ put_log = <<>>
    /\ ioc_config = IdleIoc
    /\ record = IdleIoc
    /\ match_out = IdleIoc
    /\ hnd = IdleHnd
    /\ qry = IdleQry

Init ==
    /\ store \in InitStores
    /\ store0 = store
    /\ history = <<>>
    /\ Idle
    /\ data_points = <<>>
    /\ alpha = [num |-> 3, den |-> 10]
    /\ sigma = 3 * Scale
    /\ topk = 0
    /\ pc = "start"
    /\ gi = 0
    /\ baseline = NoBaseline
    /\ trained = FALSE
    /\ anomalies = <<>>
    /\ result = NoResult
    /\ err = "none"
    /\ scores = <<>>
    /\ ncalls = 0
    /\ store_error = FALSE

\* detect_anomalies(data_points, ..., alpha, sigma, min_count, topk, ...):
\* `if not data_points: return []`, else the grouping and the first group
Invoke(dps, a, s, k) ==
    /\ pc = "start"
    /\ data_points' = dps
    /\ alpha' = a
    /\ sigma' = s
    /\ topk' = k
    /\ IF dps = <<>>
       THEN /\ pc' = "done"
            /\ result' = Returned(<<>>)
            /\ gi' = gi
       ELSE /\ pc' = "load"
            /\ result' = result
            /\ gi' = 1
    /\ UNCHANGED <<store, baseline, trained, anomalies, err, scores, ncalls,
                   store_error>>
    /\ UNCHANGED outside

\* Faulty variant: the error is caught and what was found so far is returned
ReturnFound(e) ==
    /\ pc' = "done"
    /\ err' = e
    /\ result' = Returned(anomalies)

\* The exception leaves detect_anomalies: nothing is returned
Raise(e) ==
    /\ pc' = "raised"
    /\ err' = e
    /\ result' = NoResult

\* storage.get_baseline answers: load_or_train_baseline returns the stored
\* (mean, std), goes on to train, or raises on what it was given
GetBaseline ==
    /\ pc = "load"
    /\ ncalls' = ncalls + 1
    /\ LET out == LoadOutcome(store[CurStorageKey])
       IN  CASE out = "loaded" ->
                  /\ baseline' = StoredBaseline(store[CurStorageKey])
                  /\ trained' = FALSE
                  /\ pc' = "update"
                  /\ UNCHANGED <<err, result>>
             [] out = "train" ->
                  /\ pc' = "train"
                  /\ UNCHANGED <<baseline, trained, err, result>>
             [] OTHER ->
                  /\ Raise(out)
                  /\ UNCHANGED <<baseline, trained>>
    /\ UNCHANGED <<store, data_points, alpha, sigma, topk, gi, anomalies, scores,
                   store_error>>
    /\ UNCHANGED outside

\* s3_client.get_object fails with a ClientError other than NoSuchKey:
\* get_baseline re-raises
GetBaselineStoreError ==
    /\ pc = "load"
    /\ ncalls' = ncalls + 1
    /\ store_error' = TRUE
    /\ Raise("ClientError")
    /\ UNCHANGED <<store, data_points, alpha, sigma, topk, gi, baseline,
                   trained, anomalies, scores>>
    /\ UNCHANGED outside

\* load_or_train_baseline, no baseline: train on the group's values and
\* put_baseline the result.  json.dumps raises TypeError on the numpy.int64
\* that values.iloc[-1] is for a series of fewer than 2 ints.
TrainBaseline ==
    /\ pc = "train"
    /\ LET values == SeriesValues(CurGroup)
           new == TrainedBaseline(values, alpha)
       IN  IF Len(values) < 2 /\ IntDtype(values)
           THEN /\ Raise("TypeError")
                /\ UNCHANGED <<store, baseline, trained, ncalls>>
           ELSE /\ store' = PutObject(store, CurStorageKey,
                                       RecordBlob(new.mean, new.std, FALSE))
                /\ baseline' = new
                /\ trained' = TRUE
                /\ ncalls' = ncalls + 1
                /\ pc' = "update"
                /\ UNCHANGED <<err, result>>
    /\ UNCHANGED <<data_points, alpha, sigma, topk, gi, anomalies, scores,
                   store_error>>
    /\ UNCHANGED outside

\* s3_client.put_object fails while saving the trained baseline
TrainBaselineStoreError ==
    /\ pc = "train"
    /\ LET values == SeriesValues(CurGroup)
       IN  ~(Len(values) < 2 /\ IntDtype(values))
    /\ ncalls' = ncalls + 1
    /\ store_error' = TRUE
    /\ Raise("ClientError")
    /\ UNCHANGED <<store, data_points, alpha, sigma, topk, gi, baseline,
                   trained, anomalies, scores>>
    /\ UNCHANGED outside

\* The locals of one pass of the loop body
Pass ==
    LET group == CurGroup
        value == CurrentValue(group)
        mean == UpdatedMean(alpha, baseline.mean, value)
        std == UpdatedStd(alpha, baseline.std, value - mean)
    IN  [group |-> GroupKey(group[1]), minute |-> group[Len(group)].minute,
         current_value |-> value, baseline |-> baseline, trained |-> trained,
         updated_mean |-> mean, updated_std |-> std,
         score |-> Score(value, mean, std),
         s3_key |-> get_baseline_key(GroupKey(group[1]))]

\* anomalies.append({...})
AnomalyOf(p) ==
    [key |-> p.group.key, subkey |-> p.group.subkey, minute |-> p.minute,
     value |-> p.current_value, score |-> p.score,
     baseline_mean |-> p.updated_mean, baseline_std |-> p.updated_std,
     metric |-> p.group.metric, mode |-> Mode(p.score)]

Found(p) ==
    IF IsAnomaly(p.score, sigma) THEN Append(anomalies, AnomalyOf(p))
    ELSE anomalies

\* The rest of the loop body: update, score, append, save; after the last
\* group the sort and the return
UpdateAndScore ==
    /\ pc = "update"
    /\ LET p == Pass
       IN  /\ anomalies' = Found(p)
           /\ store' = PutObject(store, p.s3_key,
                                  RecordBlob(p.updated_mean, p.updated_std, TRUE))
           /\ scores' = Append(scores, p)
    /\ ncalls' = ncalls + 1
    /\ IF gi = Len(Groups)
       THEN /\ pc' = "done"
            /\ result' = Returned(Ranked(anomalies', topk))
            /\ gi' = gi
       ELSE /\ pc' = "load"
            /\ result' = result
            /\ gi' = gi + 1
    /\ UNCHANGED <<data_points, alpha, sigma, topk, baseline, trained, err,
                   store_error>>
    /\ UNCHANGED outside

\* s3_client.put_object fails while saving the updated baseline
UpdateStoreError ==
    /\ pc = "update"
    /\ LET p == Pass
       IN  /\ anomalies' = Found(p)
           /\ scores' = Append(scores, p)
    /\ ncalls' = ncalls + 1
    /\ store_error' = TRUE
    /\ Raise("ClientError")
    /\ UNCHANGED <<store, data_points, alpha, sigma, topk, gi, baseline,
                   trained>>
    /\ UNCHANGED outside

Next ==
    \/ /\ pc = "start"
       /\ \E dps \in Batches, a \in Alphas, s \in Sigmas, k \in TopKs :
             Invoke(dps, a, s, k)
    \/ GetBaseline
    \/ GetBaselineStoreError
    \/ TrainBaseline
    \/ TrainBaselineStoreError
    \/ UpdateAndScore
    \/ UpdateStoreError

Spec == Init /\ [][Next]_vars

-----------------------------------------------------------------------------
(* Successive invocations of detect_anomalies for one entity, each on the    *)
(* batch of its own run, starting from an empty store.                       *)

MaxBatches == 3

ChainKey == get_baseline_key(EA)

\* The batches of a run: rows of the one entity at successive minutes
ChainBatches ==
    UNION {{[i \in 1..n |->
               [minute |-> i, key |-> EA.key, subkey |-> EA.subkey,
                value |-> vs[i], metric |-> EA.metric]] : vs \in [1..n -> Values]} :
           n \in 1..MaxRows}

InitChain ==
    /\ store = EmptyStore
    /\ store0 = store
    /\ history = <<>>
    /\ Idle
    /\ data_points = <<>>
    /\ alpha = [num |-> 3, den |-> 10]
    /\ sigma = 3 * Scale
    /\ topk = 0
    /\ pc = "start"
    /\ gi = 0
    /\ baseline = NoBaseline
    /\ trained = FALSE
    /\ anomalies = <<>>
    /\ result = NoResult
    /\ err = "none"
    /\ scores = <<>>
    /\ ncalls = 0
    /\ store_error = FALSE

\* The next scheduled run: the invocation has returned and a new one starts
\* on the store the old one left
NextBatch ==
    /\ pc = "done"
    /\ Len(history) < MaxBatches - 1
    /\ history' = Append(history, data_points)
    /\ store0' = store
    /\ pc' = "start"
    /\ data_points' = <<>>
    /\ gi' = 0
    /\ baseline' = NoBaseline
    /\ trained' = FALSE
    /\ anomalies' = <<>>
    /\ result' = NoResult
    /\ scores' = <<>>
    /\ ncalls' = 0
    /\ UNCHANGED <<store, alpha, sigma, topk, err, store_error>>
    /\ UNCHANGED <<inv, got, put_log, ioc_config, record, match_out,
                   hnd, qry>>

NextChain ==
    \/ /\ pc = "start"
       /\ \E dps \in ChainBatches, a \in Alphas, s \in Sigmas :
             Invoke(dps, a, s, MaxTopK)
    \/ GetBaseline
    \/ TrainBaseline
    \/ UpdateAndScore
    \/ NextBatch

SpecChain == InitChain /\ [][NextChain]_vars

-----------------------------------------------------------------------------
(* One invocation on one entity, over a range of smoothing factors,          *)
(* thresholds and stored baselines                                          *)

ScoreAlphas ==
    {[num |-> 1, den |-> 10], [num |-> 3, den |-> 10], [num |-> 1, den |-> 2],
     [num |-> 1, den |-> 1]}

ScoreSigmas == {1 * Scale, 2 * Scale, 3 * Scale}

\* The store holds nothing, or a record of the entity: a bootstrap record
\* (std 0, no last_updated) or an updated one
ScoreStores ==
    {EmptyStore}
    \cup {[EmptyStore EXCEPT ![ChainKey] = RecordBlob(mean, std, std # 0)] :
            mean \in {250, 10 * Scale}, std \in {0, 1 * Scale}}

InitScore ==
    /\ store \in ScoreStores
    /\ store0 = store
    /\ history = <<>>
    /\ Idle
    /\ data_points = <<>>
    /\ alpha = [num |-> 3, den |-> 10]
    /\ sigma = 3 * Scale
    /\ topk = 0
    /\ pc = "start"
    /\ gi = 0
    /\ baseline = NoBaseline
    /\ trained = FALSE
    /\ anomalies = <<>>
    /\ result = NoResult
    /\ err = "none"
    /\ scores = <<>>
    /\ ncalls = 0
    /\ store_error = FALSE

\* alpha = 1 is taken with a stored baseline only: pandas' bias-corrected
\* variance of the training branch divides by 1 - (the sum of the squared
\* weights), which is 0 for alpha = 1
NextScore ==
    \/ /\ pc = "start"
       /\ \E dps \in ChainBatches, a \in ScoreAlphas, s \in ScoreSigmas :
             /\ a.num = a.den => store # EmptyStore
             /\ Invoke(dps, a, s, MaxTopK)
    \/ GetBaseline
    \/ TrainBaseline
    \/ UpdateAndScore

SpecScore == InitScore /\ [][NextScore]_vars

-----------------------------------------------------------------------------
(* Two concurrent invocations of detect_anomalies on the same entity.  Each  *)
(* runs the loop body for its one group; the steps of the two interleave at  *)
(* the store calls.                                                          *)

Procs == 1..2
RaceKey == get_baseline_key(EA)

\* The batches of an invocation: rows of the one entity at successive minutes
RaceBatches ==
    UNION {{[i \in 1..n |->
               [minute |-> i, key |-> EA.key, subkey |-> EA.subkey,
                value |-> vs[i], metric |-> EA.metric]] : vs \in [1..n -> Values]} :
           n \in 1..MaxRows}

\* The detect_anomalies variables while no single invocation is followed
DetectorIdle ==
    /\ data_points = <<>>
    /\ alpha = [num |-> 3, den |-> 10]
    /\ sigma = 1 * Scale
    /\ topk = MaxTopK
    /\ pc = "idle"
    /\ gi = 0
    /\ baseline = NoBaseline
    /\ trained = FALSE
    /\ anomalies = <<>>
    /\ result = NoResult
    /\ err = "none"
    /\ scores = <<>>
    /\ ncalls = 0
    /\ store_error = FALSE
    /\ store0 = store
    /\ history = <<>>

\* An invocation that has grouped its batch, sorted the group and is about
\* to load
Started(dps) ==
    [dps |-> dps, group |-> SortedGroup(dps, EA), pc |-> "load",
     loaded |-> Absent, baseline |-> NoBaseline, trained |-> FALSE,
     result |-> NoResult, err |-> "none"]

InitRace ==
    /\ store \in {EmptyStore, TrainedStore}
    /\ DetectorIdle
    /\ inv \in [Procs -> {Started(dps) : dps \in RaceBatches}]
    /\ got = IdleGot
    /\ put_log = <<>>
    /\ ioc_config = IdleIoc
    /\ record = IdleIoc
    /\ match_out = IdleIoc
    /\ hnd = IdleHnd
    /\ qry = IdleQry

RaceGroup(i) == inv[i].group

\* load_or_train_baseline: storage.get_baseline and what follows from it
RaceLoad(i) ==
    /\ inv[i].pc = "load"
    /\ LET blob == store[RaceKey]
           out == LoadOutcome(blob)
       IN  inv' = [inv EXCEPT ![i] =
                     CASE out = "loaded" ->
                            [@ EXCEPT !.pc = "update", !.loaded = blob,
                                      !.baseline = StoredBaseline(blob)]
                       [] out = "train" -> [@ EXCEPT !.pc = "train", !.loaded = blob]
                       [] OTHER -> [@ EXCEPT !.pc = "raised", !.err = out]]
    /\ UNCHANGED <<store, put_log, got, ioc_config, record, match_out,
                   hnd, qry>>
    /\ UNCHANGED detector

\* load_or_train_baseline, no baseline: train and put_baseline
RaceTrain(i) ==
    /\ inv[i].pc = "train"
    /\ \E values \in {SeriesValues(RaceGroup(i))} :
          IF Len(values) < 2 /\ IntDtype(values)
          THEN /\ inv' = [inv EXCEPT ![i] =
                            [@ EXCEPT !.pc = "raised", !.err = "TypeError"]]
               /\ UNCHANGED <<store, put_log>>
          ELSE \E new \in {TrainedBaseline(values, alpha)} :
                 \E d \in {Dict(new.mean, new.std, FALSE)} :
                    /\ store' = PutObject(store, RaceKey, DictBlob(d))
                    /\ put_log' = Append(put_log, [by |-> i, key |-> RaceKey,
                                                   dict |-> d])
                    /\ inv' = [inv EXCEPT ![i] =
                                 [@ EXCEPT !.pc = "update", !.baseline = new,
                                           !.trained = TRUE]]
    /\ UNCHANGED <<got, ioc_config, record, match_out,
                   hnd, qry>>
    /\ UNCHANGED detector

\* What the loop body computes for a sorted group from a baseline
PassOn(group, base) ==
    LET value == CurrentValue(group)
        mean == UpdatedMean(alpha, base.mean, value)
        std == UpdatedStd(alpha, base.std, value - mean)
    IN  [group |-> EA, minute |-> group[Len(group)].minute,
         current_value |-> value, updated_mean |-> mean, updated_std |-> std,
         score |-> Score(value, mean, std)]

\* What the loop body computes from the baseline the invocation holds
RacePass(i) ==
    CHOOSE p \in {PassOn(group, inv[i].baseline) : group \in {RaceGroup(i)}} :
        TRUE

\* The rest of the loop body, the save of the updated baseline, the return
RaceUpdate(i) ==
    /\ inv[i].pc = "update"
    /\ \E p \in {RacePass(i)} :
          \E d \in {Dict(p.updated_mean, p.updated_std, TRUE)} :
             LET found == IF IsAnomaly(p.score, sigma) THEN <<AnomalyOf(p)>>
                          ELSE <<>>
             IN  /\ store' = PutObject(store, RaceKey, DictBlob(d))
                 /\ put_log' = Append(put_log, [by |-> i, key |-> RaceKey,
                                                dict |-> d])
                 /\ inv' = [inv EXCEPT ![i] =
                              [@ EXCEPT !.pc = "done",
                                        !.result = Returned(Ranked(found, topk))]]
    /\ UNCHANGED <<got, ioc_config, record, match_out,
                   hnd, qry>>
    /\ UNCHANGED detector

RaceStep(i) == RaceLoad(i) \/ RaceTrain(i) \/ RaceUpdate(i)

NextRace ==
    \/ \E i \in Procs : RaceLoad(i)
    \/ \E i \in Procs : RaceTrain(i)
    \/ \E i \in Procs : RaceUpdate(i)

\* The invocations run sequential code and a store call returns: while an
\* invocation can take a step, a step is taken
SpecRace == InitRace /\ [][NextRace]_vars /\ WF_vars(NextRace)

-----------------------------------------------------------------------------
(* The store by itself: put_baseline and get_baseline calls in any order.    *)

MaxPuts == 2

StoreKeys == {get_baseline_key(EA), get_baseline_key(EB)}

\* The dicts given to put_baseline: means and stds with no, one and two
\* digits after the point, with and without 'last_updated'
StoreDicts ==
    {Dict(mean, std, stamped) :
        mean \in {-250, 775, 10 * Scale}, std \in {0, 322}, stamped \in BOOLEAN}

\* storage.get_baseline: json.loads of the object, or None
GetBaselineResult(blob) ==
    IF blob.kind = "record"
    THEN [kind |-> "dict", mean |-> ParseNumber(blob.mean),
          std |-> ParseNumber(blob.std), last_updated |-> blob.last_updated]
    ELSE [kind |-> GetOutcome(blob), mean |-> 0, std |-> 0, last_updated |-> FALSE]

InitStore ==
    /\ store = EmptyStore
    /\ DetectorIdle
    /\ Idle

\* put_baseline(s3_client, bucket, k, d) returns
StorePut(k, d) ==
    /\ Len(put_log) < MaxPuts
    /\ store' = PutObject(store, k, DictBlob(d))
    /\ put_log' = Append(put_log, [by |-> 0, key |-> k, dict |-> d])
    /\ UNCHANGED <<inv, got, ioc_config, record, match_out,
                   hnd, qry>>
    /\ UNCHANGED detector

\* get_baseline(s3_client, bucket, k) returns; the caller holds the result
StoreGet(k) ==
    /\ got' = [called |-> TRUE, key |-> k, at |-> Len(put_log),
               value |-> GetBaselineResult(store[k])]
    /\ UNCHANGED <<store, inv, put_log, ioc_config, record, match_out,
                   hnd, qry>>
    /\ UNCHANGED detector

NextStore ==
    \/ \E k \in StoreKeys, d \in StoreDicts : StorePut(k, d)
    \/ \E k \in StoreKeys : StoreGet(k)

SpecStore == InitStore /\ [][NextStore]_vars

-----------------------------------------------------------------------------
(* The IOC matcher of backend/analytics/ioc.py.  A text is the sequence of   *)
(* its characters.  A field of a record is present or not (record.get gives  *)
(* None).  A client_ip text is held split at its dots.  A descriptor is the  *)
(* pair of its prefix and of what the f-string puts after the colon.         *)

MaxPatterns == 2

Field(text) == [present |-> TRUE, text |-> text]
Missing == [present |-> FALSE, text |-> <<>>]

\* `if not x:` on None or ""
Falsy(f) == ~f.present \/ f.text = <<>>

\* re.IGNORECASE folds the case of the letters
Lower(c) ==
    CASE c = "A" -> "a" [] c = "B" -> "b" [] c = "O" -> "o" [] c = "T" -> "t"
      [] OTHER -> c

\* re.compile(p, re.IGNORECASE).search(t) for a pattern of literal characters:
\* the pattern occurs somewhere in the text, whatever the case
Search(p, t) ==
    \E i \in 0..(Len(t) - Len(p)) :
        \A j \in 1..Len(p) : Lower(t[i + j]) = Lower(p[j])

\* The first of the patterns that is found in the text, as a list of at most
\* one
FirstMatch(patterns, t) ==
    LET hits == {i \in 1..Len(patterns) : Search(patterns[i], t)}
    IN  IF hits = {} THEN <<>>
        ELSE <<patterns[CHOOSE i \in hits : \A j \in hits : i <= j]>>

\* Every pattern that is found in the text, in configuration order
RECURSIVE AllMatches(_, _)
AllMatches(patterns, t) ==
    IF patterns = <<>> THEN <<>>
    ELSE (IF Search(patterns[1], t) THEN <<patterns[1]>> ELSE <<>>)
           \o AllMatches(Tail(patterns), t)

\* The descriptors f"{tag}:{text}" of a list of texts
Described(tag, texts) == [i \in 1..Len(texts) |-> <<tag, texts[i]>>]

\* One decimal octet of a dotted quad: 1 to 3 digits, no leading zero, at
\* most 255
IsOctet(part) ==
    /\ Len(part) \in 1..3
    /\ \A i \in 1..Len(part) : IsDigit(part[i])
    /\ Len(part) > 1 => part[1] # "0"
    /\ NatValue(part) <= 255

\* ipaddress.ip_address(ip_str): the address, or ValueError
ip_address(parts) ==
    IF Len(parts) = 4 /\ \A i \in 1..4 : IsOctet(parts[i])
    THEN [ok |-> TRUE, addr |-> [i \in 1..4 |-> NatValue(parts[i])]]
    ELSE [ok |-> FALSE, addr |-> <<>>]

\* The number of leading bits of octet i that a prefix length covers
PrefixBits(prefix, i) ==
    IF prefix >= 8 * i THEN 8
    ELSE IF prefix <= 8 * (i - 1) THEN 0 ELSE prefix - 8 * (i - 1)

Pow2(n) == IF n = 0 THEN 1 ELSE IF n = 1 THEN 2 ELSE IF n = 2 THEN 4
           ELSE IF n = 3 THEN 8 ELSE IF n = 4 THEN 16 ELSE IF n = 5 THEN 32
           ELSE IF n = 6 THEN 64 ELSE IF n = 7 THEN 128 ELSE 256

\* addr in net
InNetwork(addr, net) ==
    \A i \in 1..4 :
        LET low == Pow2(8 - PrefixBits(net.prefix, i))
        IN  addr[i] \div low = net.addr[i] \div low

\* Faulty variant: a client_ip that does not parse is reported as a rule
match_ip_cidr_unguarded(m, ip) ==
    IF Falsy(ip) THEN <<>>
    ELSE LET a == ip_address(ip.text)
             hits == {i \in 1..Len(m.cidrs) : a.ok /\ InNetwork(a.addr, m.cidrs[i])}
         IN  IF ~a.ok THEN <<<<"ValueError", <<>>>>>>
             ELSE IF hits = {} THEN <<>>
             ELSE <<<<"CIDR", m.cidrs[CHOOSE i \in hits : \A j \in hits : i <= j]>>>>

\* _match_ip_cidr: the first network that holds the address; None for a
\* falsy ip_str and for one that ip_address refuses
match_ip_cidr(m, ip) ==
    IF Falsy(ip) THEN <<>>
    ELSE LET a == ip_address(ip.text)
             hits == {i \in 1..Len(m.cidrs) : a.ok /\ InNetwork(a.addr, m.cidrs[i])}
         IN  IF ~a.ok \/ hits = {} THEN <<>>
             ELSE <<<<"CIDR", m.cidrs[CHOOSE i \in hits : \A j \in hits : i <= j]>>>>

\* Faulty variant: every country given is reported
match_country_any(m, country) ==
    IF Falsy(country) THEN <<>> ELSE <<<<"Country", country.text>>>>

\* _match_country
match_country(m, country) ==
    IF Falsy(country) \/ country.text \notin m.countries THEN <<>>
    ELSE <<<<"Country", country.text>>>>

\* _match_ua_exact
match_ua_exact(m, user_agent) ==
    IF Falsy(user_agent) \/ user_agent.text \notin m.exact_ua THEN <<>>
    ELSE <<<<"UA_Exact", user_agent.text>>>>

\* _match_uri_exact
match_uri_exact(m, uri) ==
    IF Falsy(uri) \/ uri.text \notin m.exact_uri THEN <<>>
    ELSE <<<<"URI_Exact", uri.text>>>>

\* Faulty variant: every pattern that matches gives a descriptor
match_ua_regex_all(m, user_agent) ==
    IF Falsy(user_agent) THEN <<>>
    ELSE Described("UA_Regex", AllMatches(m.regex_ua, user_agent.text))

\* _match_ua_regex: returns at the first pattern that matches
match_ua_regex(m, user_agent) ==
    IF Falsy(user_agent) THEN <<>>
    ELSE Described("UA_Regex", FirstMatch(m.regex_ua, user_agent.text))

\* Faulty variant: every pattern that matches gives a descriptor
match_uri_regex_all(m, uri) ==
    IF Falsy(uri) THEN <<>>
    ELSE Described("URI_Regex", AllMatches(m.regex_uri, uri.text))

\* _match_uri_regex: returns at the first pattern that matches
match_uri_regex(m, uri) ==
    IF Falsy(uri) THEN <<>>
    ELSE Described("URI_Regex", FirstMatch(m.regex_uri, uri.text))

\* What match returns for its list of descriptors
MatchResult(rules) == [called |-> TRUE, matched |-> rules # <<>>, rules |-> rules]

\* Faulty variant: match returns at the first category that matches
match_first(m, r) ==
    LET all == match_ip_cidr(m, r.client_ip) \o match_country(m, r.country)
                 \o match_ua_exact(m, r.user_agent) \o match_ua_regex(m, r.user_agent)
                 \o match_uri_exact(m, r.uri) \o match_uri_regex(m, r.uri)
    IN  MatchResult(IF all = <<>> THEN <<>> ELSE <<all[1]>>)

\* IOCMatcher.match
match(m, r) ==
    MatchResult(match_ip_cidr(m, r.client_ip) \o match_country(m, r.country)
                  \o match_ua_exact(m, r.user_agent) \o match_ua_regex(m, r.user_agent)
                  \o match_uri_exact(m, r.uri) \o match_uri_regex(m, r.uri))

\* The texts of the inputs
Bot == <<"B", "o", "t">>
UaTexts == {Bot, <<"O", "t", "x">>, <<"o", "k">>}
UaPatterns == {<<"b", "o", "t">>, <<"o", "t">>}
UriTexts == {<<"/", "a">>, <<"A", "b">>, <<"/", "x">>}
CountryTexts == {<<"K", "P">>, <<"U", "S">>}

\* 192.168.1.0/24 and 10.0.0.1/32
Net24 == [addr |-> <<192, 168, 1, 0>>, prefix |-> 24]
Net32 == [addr |-> <<10, 0, 0, 1>>, prefix |-> 32]

\* client_ip texts: inside the first network, inside both of a wider pair,
\* outside, and three that ip_address refuses (an octet over 255, three
\* parts, a part that is no number)
IpTexts ==
    {<<<<"1", "9", "2">>, <<"1", "6", "8">>, <<"1">>, <<"1", "0">>>>,
     <<<<"1", "0">>, <<"0">>, <<"0">>, <<"1">>>>,
     <<<<"1", "7", "2">>, <<"1", "6">>, <<"0">>, <<"1">>>>,
     <<<<"1", "9", "2">>, <<"1", "6", "8">>, <<"1">>, <<"2", "5", "6">>>>,
     <<<<"1", "0">>, <<"0">>, <<"1">>>>,
     <<<<"n", "o">>>>}

\* A field with one of the texts, with the empty text, or missing
FieldOf(texts) == {Field(t) : t \in texts \cup {<<>>}} \cup {Missing}

Records ==
    [client_ip : FieldOf(IpTexts), country : FieldOf(CountryTexts),
     user_agent : FieldOf(UaTexts), uri : FieldOf(UriTexts)]

\* The lists of at most MaxPatterns of the patterns
PatternLists(patterns) == UNION {[1..n -> patterns] : n \in 0..MaxPatterns}

\* The lists of URI patterns: none, one, and the two in both orders
UriPatternLists ==
    {<<>>, <<<<"a">>>>, <<<<"/", "a">>, <<"a">>>>, <<<<"a">>, <<"/", "a">>>>}

\* IOCMatcher(ioc_config): the parsed networks, the sets and the compiled
\* patterns
Matchers ==
    [cidrs : {<<>>, <<Net24, Net32>>},
     countries : {{<<"K", "P">>, <<"R", "U">>}},
     exact_ua : {{Bot}, {Bot, <<>>}},
     exact_uri : {{<<"/", "a">>}},
     regex_ua : PatternLists(UaPatterns),
     regex_uri : UriPatternLists]

InitIoc ==
    /\ store = EmptyStore
    /\ DetectorIdle
    /\ inv = IdleInv
    /\ got = IdleGot
    /\ put_log = <<>>
    /\ ioc_config \in Matchers
    /\ record = IdleIoc
    /\ match_out = IdleIoc
    /\ hnd = IdleHnd
    /\ qry = IdleQry

\* matcher.match(record) returns; the matcher keeps nothing of a call, so
\* one call is followed
Match(r) ==
    /\ ~match_out.called
    /\ record' = r
    /\ match_out' = match(ioc_config, r)
    /\ UNCHANGED <<store, inv, got, put_log, ioc_config, hnd, qry>>
    /\ UNCHANGED detector

NextIoc == \E r \in Records : Match(r)

SpecIoc == InitIoc /\ [][NextIoc]_vars

-----------------------------------------------------------------------------
(* execute_athena_query of backend/lambdas/detector_handler.py: start the    *)
(* query, poll its state, fetch the pages of its results.  A row is named by *)
(* its content; "h" is the row of the column names.                          *)

MaxPages == 2
MaxPageRows == 2

\* max_retries = 30
max_retries == 30

QueryStates == {"RUNNING", "QUEUED", "SUCCEEDED", "FAILED", "CANCELLED"}

RowValues == {"h", "a"}

\* A page of results holds at most MaxPageRows rows
Page == UNION {[1..n -> RowValues] : n \in 0..MaxPageRows}

\* The first page starts with the header row
FirstPage ==
    {<<"h">> \o p : p \in UNION {[1..n -> RowValues] : n \in 0..(MaxPageRows - 1)}}

\* Faulty variant: the loop goes on while the query runs, without a cap
KeepPollingUncapped(state, retries) == state \in {"RUNNING", "QUEUED"}

\* while state in ['RUNNING', 'QUEUED'] and retries < max_retries
KeepPolling(state, retries) ==
    state \in {"RUNNING", "QUEUED"} /\ retries < max_retries

\* The inner loop over the rows of one page, from row i on:
\* `if row_data == page['ResultSet']['Rows'][0] and len(rows) == 0: continue`
RECURSIVE FetchPage(_, _, _)
FetchPage(page, i, rows) ==
    IF i > Len(page) THEN rows
    ELSE FetchPage(page, i + 1,
                   CHOOSE r \in {IF page[i] = page[1] /\ Len(got_rows) = 0
                                   THEN got_rows
                                   ELSE Append(got_rows, page[i]) :
                                 got_rows \in {rows}} : TRUE)

InitQuery ==
    /\ store = EmptyStore
    /\ DetectorIdle
    /\ inv = IdleInv
    /\ got = IdleGot
    /\ put_log = <<>>
    /\ ioc_config = IdleIoc
    /\ record = IdleIoc
    /\ match_out = IdleIoc
    /\ hnd = IdleHnd
    /\ qry = [pc |-> "start", state |-> "none", retries |-> 0, overrun |-> FALSE,
              pages |-> <<>>, rows |-> <<>>, err |-> "none"]

\* ATHENA_CLIENT.start_query_execution returns; state = 'RUNNING'
StartQuery ==
    /\ qry.pc = "start"
    /\ qry' = [qry EXCEPT !.pc = "poll", !.state = "RUNNING"]

\* start_query_execution raises: `except Exception: raise`
StartQueryError ==
    /\ qry.pc = "start"
    /\ qry' = [qry EXCEPT !.pc = "raised", !.err = "ClientError"]

\* One turn of the polling loop: sleep, get_query_execution, retries += 1
Poll(s) ==
    /\ qry.pc = "poll"
    /\ KeepPolling(qry.state, qry.retries)
    /\ qry' = [qry EXCEPT !.state = s, !.retries = @ + 1,
                          !.overrun = @ \/ (qry.retries > 0
                                             /\ qry.state \notin {"RUNNING", "QUEUED"})]

\* get_query_execution raises
PollError ==
    /\ qry.pc = "poll"
    /\ KeepPolling(qry.state, qry.retries)
    /\ qry' = [qry EXCEPT !.pc = "raised", !.err = "ClientError"]

\* The loop is left with state == 'SUCCEEDED', or a page has been read: the
\* paginator delivers the next page and its rows are read
FetchPageStep ==
    /\ \/ /\ qry.pc = "poll"
          /\ ~KeepPolling(qry.state, qry.retries)
          /\ qry.state = "SUCCEEDED"
       \/ qry.pc = "fetch"
    /\ Len(qry.pages) < MaxPages
    /\ \E page \in (IF qry.pages = <<>> THEN FirstPage ELSE Page) :
          qry' = [qry EXCEPT !.pc = "fetch", !.pages = Append(@, page),
                             !.rows = FetchPage(page, 1, qry.rows)]

\* get_query_results raises
FetchError ==
    /\ qry.pc = "fetch"
    /\ qry' = [qry EXCEPT !.pc = "raised", !.err = "ClientError"]

\* The paginator has no further page: the rows are returned
ReturnRows ==
    /\ qry.pc = "fetch"
    /\ qry' = [qry EXCEPT !.pc = "returned"]

\* The loop is left with another state: raise Exception("Athena query
\* failed: ...")
QueryFailed ==
    /\ qry.pc = "poll"
    /\ ~KeepPolling(qry.state, qry.retries)
    /\ qry.state # "SUCCEEDED"
    /\ qry' = [qry EXCEPT !.pc = "raised", !.err = "Exception"]

QueryStep ==
    \/ StartQuery
    \/ StartQueryError
    \/ \E s \in QueryStates : Poll(s)
    \/ PollError
    \/ FetchPageStep
    \/ FetchError
    \/ ReturnRows
    \/ QueryFailed

NextQuery ==
    /\ QueryStep
    /\ UNCHANGED <<store, inv, got, put_log, ioc_config, record, match_out, hnd>>
    /\ UNCHANGED detector

\* The code is sequential and every call of the service returns or raises:
\* while a step can be taken, one is taken
SpecQuery == InitQuery /\ [][NextQuery]_vars /\ WF_vars(NextQuery)

-----------------------------------------------------------------------------
(* handler of backend/lambdas/detector_handler.py.  The invocation's event,  *)
(* the configuration and what the collaborators will answer are fixed when   *)
(* the invocation starts; the handler runs to its return or to the exception *)
(* it lets out.                                                              *)

MaxAnomalies == 2

\* The fields of the dataclass AppConfig
AppConfigFields ==
    {"athena_database", "athena_workgroup", "athena_output_location",
     "sns_topic_arn", "baseline_bucket", "log_level", "slack_webhook_url"}

\* Reading APP_CONFIG.<name> for each of the names raises AttributeError
\* unless the dataclass has the field
HasAttrs(names) == names \subseteq AppConfigFields

\* The keys of the anomalies: an address inside 192.168.1.0/24, one outside
\* the networks, and a text that is no address
AnomalyKeys ==
    {<<<<"1", "9", "2">>, <<"1", "6", "8">>, <<"1">>, <<"1", "0">>>>,
     <<<<"1", "7", "2">>, <<"1", "6">>, <<"0">>, <<"1">>>>,
     <<<<"1", "0">>, <<"0">>, <<"1">>>>}

\* An anomaly as detect_anomalies appends it: it has a key and a subkey, and
\* neither 'country' nor 'ua' nor 'ioc_matches' (the fields minute, value,
\* score, baseline_mean, baseline_std, metric and mode are not touched by the
\* handler and are left out)
Anomaly(key, subkey) ==
    [key |-> key, subkey |-> subkey, tagged |-> FALSE, ioc_matches |-> <<>>]

Anomalies == {Anomaly(k, u) : k \in AnomalyKeys, u \in UriTexts}

AnomalyLists == UNION {[1..n -> Anomalies] : n \in 0..MaxAnomalies}

\* IOC_MATCHER: None when load_ioc raised, or a matcher
NoMatcher == IdleIoc

HandlerMatchers ==
    {NoMatcher} \cup {m \in Matchers : m.exact_ua = {Bot} /\ m.regex_ua = <<>>}

\* record_for_ioc: anomaly.get('country') and anomaly.get('ua') are None
record_for_ioc(anomaly) ==
    [client_ip |-> Field(anomaly.key), country |-> Missing,
     user_agent |-> Missing, uri |-> Field(anomaly.subkey)]

\* Faulty variant: the rules are attached whatever `matched` says
TagAlways(m, anomaly) ==
    [anomaly EXCEPT !.tagged = TRUE,
                    !.ioc_matches = match(m, record_for_ioc(anomaly)).rules]

\* if ioc_result['matched']: anomaly['ioc_matches'] = ioc_result['rules']
Tag(m, anomaly) ==
    CHOOSE a \in {IF r.matched
                  THEN [anomaly EXCEPT !.tagged = TRUE, !.ioc_matches = r.rules]
                  ELSE anomaly : r \in {match(m, record_for_ioc(anomaly))}} : TRUE

\* 4. Tag anomalies with IOC matches
Enrich(m, found) ==
    IF m = NoMatcher THEN found
    ELSE [i \in 1..Len(found) |-> Tag(m, found[i])]

\* Faulty variant: no event is taken for a warmup ping
IsWarmupNever(event) == FALSE

\* event.get("source") == "lambda.warmer"
IsWarmup(event) == event.source = "lambda.warmer"

Events == [source : {"lambda.warmer", "aws.events", "none"}]

\* An invocation that has not started: the event, whether a Slack webhook is
\* configured, what the query will do, what detect_anomalies will do and
\* find, and whether the publish of an error will succeed
Invocation(event, slack, query, detect, found, sns_ok) ==
    [pc |-> "start", event |-> event, slack |-> slack, query |-> query,
     detect |-> detect, found |-> found, sns_ok |-> sns_ok,
     status |-> 0, body |-> "none", raised |-> "none",
     queries |-> 0, detections |-> 0, sns |-> 0, slack_sent |-> 0, emf |-> 0,
     error_tried |-> 0, error_sent |-> 0, anomalies |-> <<>>]

\* return {"statusCode": 200, "body": ...}
Return(h, body) == [h EXCEPT !.pc = "returned", !.status = 200, !.body = body]

\* An exception leaves the handler
RaiseOut(h, exc) == [h EXCEPT !.pc = "raised", !.raised = exc]

\* except Exception as e: publish the error, whatever comes of it, and raise
Except(h, exc) ==
    RaiseOut([h EXCEPT !.error_tried = @ + 1,
                       !.error_sent = @ + (IF h.sns_ok THEN 1 ELSE 0)], exc)

\* 5. Notify if anomalies are found
Notify(h) ==
    IF h.anomalies # <<>>
    THEN [h EXCEPT !.sns = @ + 1,
                   !.slack_sent = @ + (IF h.slack THEN 1 ELSE 0),
                   !.emf = @ + 1]
    ELSE h

\* The body of the try statement
TryBody(h, m) ==
    IF ~HasAttrs({"athena_database", "lookback_minutes", "top_k", "baseline_bucket"})
    THEN Except(h, "AttributeError")
    ELSE IF h.query = "raises"
    THEN Except([h EXCEPT !.queries = 1], "Exception")
    ELSE IF h.query = "empty"
    THEN Return([h EXCEPT !.queries = 1], "No data to process.")
    ELSE IF ~HasAttrs({"baseline_bucket", "ewma_alpha", "sigma", "top_k", "train_days"})
    THEN Except([h EXCEPT !.queries = 1], "AttributeError")
    ELSE IF h.detect = "raises"
    THEN Except([h EXCEPT !.queries = 1, !.detections = 1], "ClientError")
    ELSE Return(Notify([h EXCEPT !.queries = 1, !.detections = 1,
                                 !.anomalies = Enrich(m, h.found)]),
                "\"Detection cycle finished successfully.\"")

\* handler(event, context): the warmup ping, the context for notifications
\* (built before the try statement), the try statement
Handle(h, m) ==
    IF IsWarmup(h.event) THEN Return(h, "Warmed up!")
    ELSE IF ~HasAttrs({"lookback_minutes"}) THEN RaiseOut(h, "AttributeError")
    ELSE TryBody(h, m)

\* The anomaly lists of the invocations: none, one, two
HandlerFound ==
    {<<>>} \cup {<<a>> : a \in Anomalies}
           \cup {<<a, a>> : a \in Anomalies}

InitHandler ==
    /\ store = EmptyStore
    /\ DetectorIdle
    /\ inv = IdleInv
    /\ got = IdleGot
    /\ put_log = <<>>
    /\ ioc_config \in {NoMatcher, CHOOSE m \in HandlerMatchers : m # NoMatcher /\ m.cidrs # <<>>}
    /\ record = IdleIoc
    /\ match_out = IdleIoc
    /\ hnd \in {Invocation(e, sl, q, d, f, ok) :
                  e \in Events, sl \in BOOLEAN, q \in {"rows", "empty", "raises"},
                  d \in {"returns", "raises"}, f \in HandlerFound, ok \in BOOLEAN}
    /\ qry = IdleQry

\* The invocation runs
HandlerRun ==
    /\ hnd.pc = "start"
    /\ hnd' = Handle(hnd, ioc_config)

NextHandler ==
    /\ HandlerRun
    /\ UNCHANGED <<store, inv, got, put_log, ioc_config, record, match_out, qry>>
    /\ UNCHANGED detector

SpecHandler == InitHandler /\ [][NextHandler]_vars

\* The enrichment step by itself, on the lists detect_anomalies can return
InitEnrich ==
    /\ store = EmptyStore
    /\ DetectorIdle
    /\ inv = IdleInv
    /\ got = IdleGot
    /\ put_log = <<>>
    /\ ioc_config \in HandlerMatchers
    /\ record = IdleIoc
    /\ match_out = IdleIoc
    /\ hnd \in {[Invocation([source |-> "aws.events"], FALSE, "rows", "returns", f, TRUE)
                   EXCEPT !.pc = "enrich"] : f \in AnomalyLists}
    /\ qry = IdleQry

EnrichStep ==
    /\ hnd.pc = "enrich"
    /\ hnd' = [hnd EXCEPT !.pc = "enriched", !.anomalies = Enrich(ioc_config, hnd.found)]

NextEnrich ==
    /\ EnrichStep
    /\ UNCHANGED <<store, inv, got, put_log, ioc_config, record, match_out, qry>>
    /\ UNCHANGED detector

SpecEnrich == InitEnrich /\ [][NextEnrich]_vars

-----------------------------------------------------------------------------
(* Properties *)

Processed == 1..Len(scores)
IsFor(a, g) == a.metric = g.metric /\ a.key = g.key /\ a.subkey = g.subkey
RecordsFor(as, g) == {j \in 1..Len(as) : IsFor(as[j], g)}

ColdRun(dps) ==
    /\ pc = "done"
    /\ data_points = dps
    /\ alpha = [num |-> 3, den |-> 10]
    /\ sigma = 3 * Scale
    /\ topk >= 1
    /\ Len(scores) = 1
    /\ scores[1].trained

\* C2: with no stored baseline the batch 10, 12, 11, 100, 15 of ewma.py's
\* example 1, run with alpha = 0.3 and sigma = 3.0, returns an anomaly whose
\* value is 100 and whose mode is "high".
C2_Example1Flags100 ==
    ColdRun(Example1) =>
        \E j \in 1..Len(result.list) :
            /\ result.list[j].value = 100 * Scale
            /\ result.list[j].mode = "high"

\* C3: a flat series of b with one outlier v (10 and 100), no stored
\* baseline, alpha = 0.3, sigma = 3.0: at least one anomaly is returned for
\* the group with abs(score) > sigma, "high" when v > b and "low" when v < b,
\* the outlier being the last observation or a middle one.
C3_OutlierFlagged ==
    \A dps \in FlatBatches :
        ColdRun(dps) =>
            \E j \in 1..Len(result.list) :
                /\ IsFor(result.list[j], EA)
                /\ Abs(result.list[j].score) > sigma
                /\ result.list[j].mode =
                      IF dps \in FlatHigh THEN "high" ELSE "low"

\* What the EWMA update of a pass yields, before the floor is applied
UnclampedStd(p) ==
    Sqrt(UpdatedVar(alpha, p.baseline.std,
                    p.current_value
                      - UpdatedMean(alpha, p.baseline.mean, p.current_value)))

\* C4: once detect_anomalies has returned, for every group of the batch the
\* store holds, under the storage key of that group, the record (mean', std')
\* of the EWMA update of the group's loaded or trained baseline with its
\* value under test (std' as computed, or as raised to the floor), whether or
\* not the group raised an anomaly.
C4_UpdatedBaselineStored ==
    pc = "done" =>
        \A i \in Processed :
            LET p == scores[i]
                blob == store[get_baseline_key(p.group)]
            IN  /\ blob.kind = "record"
                /\ StoredBaseline(blob).mean
                      = UpdatedMean(alpha, p.baseline.mean, p.current_value)
                /\ StoredBaseline(blob).std
                      \in {UnclampedStd(p), Clamp(UnclampedStd(p))}

RowsOf(g) == {i \in 1..Len(data_points) : GroupKey(data_points[i]) = g}
MaxMinute(g) ==
    CHOOSE m \in {data_points[i].minute : i \in RowsOf(g)} :
        \A i \in RowsOf(g) : data_points[i].minute <= m

DistinctScores(as) ==
    \A i, j \in 1..Len(as) : Abs(as[i].score) = Abs(as[j].score) => i = j

Min(a, b) == IF a < b THEN a ELSE b

\* C6: when the N anomalies of a batch have pairwise distinct abs(score) and
\* K = topk >= 0, the returned list has min(N, K) records, in strictly
\* descending order of abs(score), all of them anomalies of the batch, and
\* no anomaly left out has a greater abs(score) than one returned.
C6_TopK ==
    (pc = "done" /\ DistinctScores(anomalies)) =>
        LET out == result.list
        IN  /\ result.returned
            /\ Len(out) = Min(Len(anomalies), topk)
            /\ \A i \in 1..Len(out) : \E j \in 1..Len(anomalies) : out[i] = anomalies[j]
            /\ \A i \in 1..(Len(out) - 1) : Abs(out[i].score) > Abs(out[i + 1].score)
            /\ \A j \in 1..Len(anomalies) :
                  (\A i \in 1..Len(out) : out[i] # anomalies[j]) =>
                      \A i \in 1..Len(out) : Abs(out[i].score) > Abs(anomalies[j].score)

\* Two anomalies, the weaker one found first, and a top-K of 1
C6_Witness ==
    /\ pc = "done"
    /\ Len(anomalies) = 2
    /\ Abs(anomalies[1].score) < Abs(anomalies[2].score)
    /\ topk = 1
    /\ result.list = <<anomalies[2]>>

\* The (metric, key, subkey) triples of the batches in lexicographic order
LexOrder ==
    <<EB, EX, EC, ED, [metric |-> "requests", key |-> "ip1", subkey |-> "N/A"],
      EA, EN>>
LexRank(a) == CHOOSE i \in 1..Len(LexOrder) : IsFor(a, LexOrder[i])

\* The position in the batch of the first row of a record's group
FirstRow(a) ==
    CHOOSE r \in 1..Len(data_points) :
        /\ IsFor(a, GroupKey(data_points[r]))
        /\ \A q \in 1..(r - 1) : ~IsFor(a, GroupKey(data_points[q]))

\* Two records scored alike on the same value against the same baseline
SameScoring(a, b) ==
    /\ a.value = b.value
    /\ a.baseline_mean = b.baseline_mean
    /\ a.baseline_std = b.baseline_std
    /\ a.score = b.score

\* C7 as claimed: returned anomalies of equal abs(score) are in lexicographic
\* order of (metric, key, subkey).
C7_TiesLexicographic ==
    pc = "done" =>
        \A i, j \in 1..Len(result.list) :
            (i < j /\ SameScoring(result.list[i], result.list[j])) =>
                LexRank(result.list[i]) <= LexRank(result.list[j])

\* C7 as amended: returned anomalies of equal abs(score) are in the order in
\* which their groups first appear in the input batch.
C7_TiesInInputOrder ==
    pc = "done" =>
        \A i, j \in 1..Len(result.list) :
            (i < j /\ Abs(result.list[i].score) = Abs(result.list[j].score)) =>
                FirstRow(result.list[i]) < FirstRow(result.list[j])

\* Two tied anomalies are returned, the lexicographically greater one first
C7_Witness ==
    /\ pc = "done"
    /\ Len(result.list) = 2
    /\ SameScoring(result.list[1], result.list[2])
    /\ LexRank(result.list[1]) > LexRank(result.list[2])

\* C8: a store call that fails with a transport error ends the invocation
\* with that error: nothing is returned, the store is not written, the
\* failed call is the last store call and no step follows it (no further
\* group, no retry).
C8_StoreErrorAborts ==
    [][/\ ~store_error
       /\ store_error' =>
             /\ pc' = "raised"
             /\ err' = "ClientError"
             /\ result' = NoResult
             /\ store' = store
             /\ ncalls' = ncalls + 1]_vars

\* The save of the second group failed after the first group had raised an
\* anomaly: the invocation raised and returned nothing
C8_Witness ==
    /\ store_error
    /\ pc = "raised"
    /\ gi = 2
    /\ Len(scores) = 2
    /\ Len(anomalies) >= 1
    /\ result = NoResult

\* C9: a load that finds no object or an object that is no baseline record
\* does not fail the batch: the invocation raises only on a transport error
\* of the store.
C9_NoRecordIsColdStart ==
    pc = "raised" => store_error

\* C10: the storage key of every group processed is
\* baselines/<metric>/<sha1(key)>/<sha1(subkey)>.json, and two distinct
\* groups never use the same storage key.
C10_HashedStorageKey ==
    /\ \A i \in Processed : scores[i].s3_key = generate_s3_key(scores[i].group)
    /\ \A i, j \in Processed : scores[i].s3_key = scores[j].s3_key => i = j

\* What detect_anomalies computes for group g when the batch holds the rows
\* of g only and the bucket is the one the invocation started with
Alone(g) ==
    LET group == SortedGroup(data_points, g)
        blob == store0[get_baseline_key(g)]
        base == IF LoadOutcome(blob) = "loaded"
                THEN StoredBaseline(blob)
                ELSE TrainedBaseline(SeriesValues(group), alpha)
        value == CurrentValue(group)
        mean == UpdatedMean(alpha, base.mean, value)
        std == UpdatedStd(alpha, base.std, value - mean)
    IN  [baseline |-> base, updated_mean |-> mean, updated_std |-> std,
         score |-> Score(value, mean, std)]

\* C11: the baseline a group is scored against, its score, its anomaly
\* decision and the baseline the bucket holds for it when the invocation has
\* returned are those of the group processed alone: they do not depend on
\* the other groups of the batch, and no group reads what another one wrote.
C11_GroupsIndependent ==
    \A i \in Processed :
        LET p == scores[i]
            solo == Alone(p.group)
        IN  /\ p.baseline = solo.baseline
            /\ p.score = solo.score
            /\ Cardinality(RecordsFor(anomalies, p.group))
                  = IF IsAnomaly(solo.score, sigma) THEN 1 ELSE 0
            /\ pc = "done" =>
                  store[get_baseline_key(p.group)]
                    = RecordBlob(solo.updated_mean, solo.updated_std, TRUE)

\* The updated record an invocation writes when it holds baseline b
UpdateOf(b, i) ==
    LET value == CurrentValue(RaceGroup(i))
        mean == UpdatedMean(alpha, b.mean, value)
    IN  RecordBlob(mean, UpdatedStd(alpha, b.std, value - mean), TRUE)

\* The invocation would raise run alone against the bucket it started with
RaisesAlone(i) ==
    /\ LoadOutcome(store0[RaceKey]) = "train"
    /\ Len(inv[i].dps) < 2
    /\ IntDtype(SeriesValues(RaceGroup(i)))

BothLoadedStored ==
    /\ \A i \in Procs : inv[i].pc = "done" /\ inv[i].loaded = store0[RaceKey]
    /\ store0[RaceKey].kind = "record"

\* Every save replaces the stored object; when both invocations loaded the
\* baseline stored before either saved, the bucket ends with the update of
\* that baseline by the value of the last writer alone; an invocation raises
\* only if it would raise when run alone
LastWriterWins ==
    /\ put_log # <<>> => store[RaceKey] = DictBlob(put_log[Len(put_log)].dict)
    /\ BothLoadedStored =>
          store[RaceKey]
            = UpdateOf(StoredBaseline(store0[RaceKey]), put_log[Len(put_log)].by)
    /\ \A i \in Procs : inv[i].pc = "raised" => RaisesAlone(i)

Finished(i) == inv[i].pc \in {"done", "raised"}

\* C12: with two concurrent invocations on one entity, save is an
\* unconditional overwrite and the last writer wins: when both loaded the
\* stored baseline before either saved, the update of the other is lost.
\* Neither invocation fails because of the other, and neither is blocked:
\* in every interleaving both finish.
C12_LastWriterWins ==
    /\ []LastWriterWins
    /\ <>(\A i \in Procs : Finished(i))

\* Both invocations loaded the stored baseline and returned; their values
\* under test differ and the bucket holds neither sequential outcome
C12_Witness ==
    /\ BothLoadedStored
    /\ LET last == put_log[Len(put_log)].by
           first == 3 - last
       IN  /\ CurrentValue(RaceGroup(first)) # CurrentValue(RaceGroup(last))
           /\ store[RaceKey]
                 # UpdateOf(StoredBaseline(UpdateOf(StoredBaseline(store0[RaceKey]),
                                                   first)), last)
           /\ store[RaceKey]
                 # UpdateOf(StoredBaseline(UpdateOf(StoredBaseline(store0[RaceKey]),
                                                   last)), first)

\* The values of a batch
BatchValues(b) == {b[i].value : i \in 1..Len(b)}

\* Every observation of the runs so far, this one included, equals c
ConstantSeries(c) ==
    /\ data_points # <<>>
    /\ BatchValues(data_points) = {c}
    /\ \A j \in 1..Len(history) : BatchValues(history[j]) = {c}

\* What C13 says of the runs on a series that is constantly c
StaysFlat(c) ==
    /\ pc # "raised"
    /\ \A i \in 1..Len(scores) :
          scores[i].score = 0 /\ ~IsAnomaly(scores[i].score, sigma)
    /\ pc = "done" =>
          /\ result = Returned(<<>>)
          /\ LoadOutcome(store[ChainKey]) = "loaded"
          /\ StoredBaseline(store[ChainKey]) = [mean |-> c, std |-> StdFloor]

\* C13: from an empty store, over successive batches of one entity whose
\* observations all equal one constant c, every batch reports no anomaly
\* (score 0) and the baseline stored after each batch is (c, the floor).
C13_ConstantSeriesStaysFlat ==
    \A c \in Values : ConstantSeries(c) => StaysFlat(c)

\* The run is a cold start on a single observation
SingleColdStart ==
    /\ Len(data_points) = 1
    /\ store0[ChainKey].kind = "absent"

\* C14: for a group of exactly one observation v and no stored baseline the
\* bootstrap yields (v, 0), the update leaves mean v and clamps std to the
\* floor, the score is 0, nothing is reported and the record left in the
\* store has mean v.
C14_SingleObservationColdStart ==
    SingleColdStart =>
        LET v == data_points[1].value
        IN  /\ pc # "raised"
            /\ pc \in {"update", "done"} =>
                  trained /\ baseline = [mean |-> v, std |-> 0]
            /\ pc = "done" =>
                  /\ scores[1].updated_mean = v
                  /\ scores[1].updated_std = StdFloor
                  /\ scores[1].score = 0
                  /\ result = Returned(<<>>)
                  /\ LoadOutcome(store[ChainKey]) = "loaded"
                  /\ StoredBaseline(store[ChainKey]).mean = v

\* The std the update of a pass computes, before the clamp
ComputedStd(p) ==
    Sqrt(UpdatedVar(alpha, p.baseline.std, p.current_value - p.updated_mean))

\* The records written since the invocation started
Written == {k \in DOMAIN store : store[k].kind = "record" /\ store[k] # store0[k]}

\* C15 as stated: a std below the epsilon is clamped before it divides and
\* before it is written, so no record with std below the epsilon is written.
C15_NoRecordBelowFloor ==
    /\ \A i \in 1..Len(scores) : scores[i].updated_std >= StdFloor
    /\ \A k \in Written : StoredBaseline(store[k]).std >= StdFloor

\* C15, amended: the std of the EWMA update is clamped to the epsilon before
\* it divides the z-score and before the update's record is written; the
\* bootstrap's record is written with the std as computed, unclamped.
C15_FloorOnUpdate ==
    /\ \A i \in 1..Len(scores) :
          LET p == scores[i]
          IN  /\ p.updated_std >= StdFloor
              /\ ComputedStd(p) < StdFloor => p.updated_std = StdFloor
              /\ ComputedStd(p) >= StdFloor => p.updated_std = ComputedStd(p)
              /\ p.score = Score(p.current_value, p.updated_mean, p.updated_std)
    /\ \A k \in Written :
          store[k].last_updated => StoredBaseline(store[k]).std >= StdFloor
    /\ pc = "done" /\ scores # <<>> =>
          store[ChainKey] = RecordBlob(scores[1].updated_mean,
                                       scores[1].updated_std, TRUE)
    /\ pc = "update" /\ trained =>
          store[ChainKey] = RecordBlob(baseline.mean, baseline.std, FALSE)

\* A cold start on one observation has written the bootstrap record with
\* std 0 and the update then clamps its own std, computed as 0, to the floor
C15_Witness ==
    /\ pc = "done"
    /\ Len(scores) = 1
    /\ scores[1].trained
    /\ scores[1].baseline.std = 0
    /\ ComputedStd(scores[1]) < StdFloor
    /\ scores[1].updated_std = StdFloor
    /\ StoredBaseline(store[ChainKey]).std = StdFloor

\* The invocation has just bootstrapped the baseline of its group
Bootstrapped == pc = "update" /\ trained

\* C16 as stated: the bootstrapped (mean, std) is the result of the two
\* recurrences applied over the time-sorted values from (first value, 0);
\* with fewer than 2 values it is (last value, 0).
C16_BootstrapByRecurrences ==
    Bootstrapped =>
        LET values == SeriesValues(CurGroup)
        IN  IF Len(values) < 2
            THEN baseline = [mean |-> values[Len(values)], std |-> 0]
            ELSE baseline = TrainedByRecurrences(values, alpha)

\* What the bootstrap does compute: the mean is the result of the mean
\* recurrence from the first value; the std is the square root of the
\* bias-corrected exponentially weighted variance, which for two values is
\* |x1 - x0| / sqrt(2); with fewer than 2 values it is (last value, 0).
BootstrapByEwm ==
    Bootstrapped =>
        LET values == SeriesValues(CurGroup)
            d == values[2] - values[1]
        IN  IF Len(values) < 2
            THEN baseline = [mean |-> values[Len(values)], std |-> 0]
            ELSE /\ baseline.mean = TrainedByRecurrences(values, alpha).mean
                 /\ baseline.std = EwmaStd(values, alpha)
                 /\ Len(values) = 2 => baseline.std = Sqrt(RoundDiv(d * d, 2))

\* The put_baseline calls on key k among the first n calls
PutsTo(k, n) == {j \in 1..n : put_log[j].key = k}

\* The last of a non-empty set of calls
LastOf(js) == CHOOSE j \in js : \A i \in js : i <= j

\* C17: a get_baseline(k) after put_baseline(k, r), with no later write to
\* k, returns a record with the mean and std of r; after a second
\* put_baseline(k, r2) it returns r2 and nothing of r.
C17_RoundTrip ==
    got.called =>
        LET js == PutsTo(got.key, got.at)
        IN  IF js = {}
            THEN got.value.kind = "None"
            ELSE LET r == put_log[LastOf(js)].dict
                 IN  /\ got.value.kind = "dict"
                     /\ got.value.mean = r.mean
                     /\ got.value.std = r.std
                     /\ got.value.last_updated = r.last_updated

\* Two puts on one key, the first with last_updated and the second without
\* and with other numbers, then a get that returned the second dict
C17_Witness ==
    /\ got.called
    /\ got.at = 2
    /\ put_log[1].key = got.key
    /\ put_log[2].key = got.key
    /\ put_log[1].dict = Dict(10 * Scale, 322, TRUE)
    /\ put_log[2].dict = Dict(775, 0, FALSE)
    /\ got.value = [kind |-> "dict", mean |-> 775, std |-> 0,
                    last_updated |-> FALSE]

\* The place of a descriptor's category in the order of match
CategoryRank(d) ==
    CASE d[1] = "CIDR" -> 1 [] d[1] = "Country" -> 2 [] d[1] = "UA_Exact" -> 3
      [] d[1] = "UA_Regex" -> 4 [] d[1] = "URI_Exact" -> 5
      [] d[1] = "URI_Regex" -> 6 [] OTHER -> 0

\* The descriptors of one category among the rules returned, in order
RECURSIVE RulesOf(_, _)
RulesOf(tag, rules) ==
    IF rules = <<>> THEN <<>>
    ELSE (IF rules[1][1] = tag THEN <<rules[1]>> ELSE <<>>)
           \o RulesOf(tag, Tail(rules))

\* What each category finds on the record by itself
Alone6 ==
    <<match_ip_cidr(ioc_config, record.client_ip),
      match_country(ioc_config, record.country),
      match_ua_exact(ioc_config, record.user_agent),
      match_ua_regex(ioc_config, record.user_agent),
      match_uri_exact(ioc_config, record.uri),
      match_uri_regex(ioc_config, record.uri)>>

\* C18: match evaluates every category without short-circuiting and appends
\* the descriptors in the order CIDR, country, exact user-agent, regex
\* user-agent, exact URI, regex URI; a record matching a CIDR rule and a
\* regex-URI rule returns both, CIDR first; 'matched' is true exactly when
\* 'rules' is non-empty.
C18_AllCategoriesInOrder ==
    match_out.called =>
        \A rules \in {match_out.rules}, alone \in {Alone6} :
            /\ \A i, j \in 1..Len(rules) :
                  i < j => CategoryRank(rules[i]) <= CategoryRank(rules[j])
            /\ \A i \in 1..Len(rules) : CategoryRank(rules[i]) \in 1..6
            /\ \A c \in 1..6 :
                  \A n \in 1..Len(alone[c]) :
                      \E i \in 1..Len(rules) : rules[i] = alone[c][n]
            /\ alone[1] # <<>> /\ alone[6] # <<>> =>
                  /\ rules[1] = alone[1][1]
                  /\ rules[Len(rules)] = alone[6][Len(alone[6])]
            /\ match_out.matched <=> rules # <<>>

\* A record that matches in all six categories, and its six descriptors
C18_Witness ==
    /\ match_out.called
    /\ match_out.matched
    /\ Len(match_out.rules) = 6
    /\ match_out.rules[1] = <<"CIDR", Net24>>
    /\ match_out.rules[6][1] = "URI_Regex"
    /\ record.user_agent = Field(Bot)

\* The patterns of a list that are found in a field
Matching(patterns, f) ==
    {i \in 1..Len(patterns) : ~Falsy(f) /\ Search(patterns[i], f.text)}

FirstOnly(tag, patterns, f) ==
    LET hits == Matching(patterns, f)
        found == RulesOf(tag, match_out.rules)
    IN  /\ Len(found) = IF hits = {} THEN 0 ELSE 1
        /\ hits # {} =>
              \E i \in hits :
                  /\ \A j \in hits : i <= j
                  /\ found[1] = <<tag, patterns[i]>>

NoAddress(ip) == Falsy(ip) \/ ~ip_address(ip.text).ok

\* An address that parses and is in none of the configured networks
OutsideIp == Field(<<<<"1", "7", "2">>, <<"1", "6">>, <<"0">>, <<"1">>>>)

\* C20: for a client_ip that is missing, empty or not parseable match does
\* not raise: it reports no CIDR descriptor and evaluates the country,
\* user-agent and URI categories exactly as with a valid non-matching IP.
C20_BadIpIgnored ==
    match_out.called /\ NoAddress(record.client_ip) =>
        /\ RulesOf("CIDR", match_out.rules) = <<>>
        /\ \A i \in 1..Len(match_out.rules) :
              CategoryRank(match_out.rules[i]) \in 2..6
        /\ match_out = match(ioc_config, [record EXCEPT !.client_ip = OutsideIp])

\* A record whose client_ip has an octet over 255, matched against
\* configured networks, with the country and the URI found
C20_Witness ==
    /\ match_out.called
    /\ ~Falsy(record.client_ip)
    /\ ~ip_address(record.client_ip.text).ok
    /\ Len(record.client_ip.text) = 4
    /\ ioc_config.cidrs # <<>>
    /\ Len(match_out.rules) >= 2
    /\ match_out.rules[1][1] = "Country"

\* The record's client_ip parses to an address inside a configured network
InSomeNetwork ==
    /\ ~Falsy(record.client_ip)
    /\ ip_address(record.client_ip.text).ok
    /\ \E i \in 1..Len(ioc_config.cidrs) :
          InNetwork(ip_address(record.client_ip.text).addr, ioc_config.cidrs[i])

\* The rules returned hold a descriptor of the category exactly when the
\* condition holds, and then it is the descriptor of the field's text
ExactRule(tag, f, cond) ==
    /\ RulesOf(tag, match_out.rules) # <<>> <=> cond
    /\ cond => RulesOf(tag, match_out.rules) = <<<<tag, f.text>>>>

RECURSIVE Flatten(_)
Flatten(pages) == IF pages = <<>> THEN <<>> ELSE pages[1] \o Flatten(Tail(pages))

DataRows(pages) == Tail(Flatten(pages))

\* C29: the rows execute_athena_query returns are all the rows of all the
\* pages, in order, but the first row of the first page (the header): no data
\* row is dropped, also when the first page holds the header alone or a data
\* row equals the first row of its page
C29_OnlyHeaderSkipped ==
    qry.pc = "returned" => qry.rows = DataRows(qry.pages)

\* The call has ended: it returned the rows or raised
QueryEnded == qry.pc \in {"returned", "raised"}

\* What holds of the polls made so far and of the way the call ended
PollingBounds ==
    /\ qry.retries <= max_retries
    /\ ~qry.overrun
    /\ qry.pc \in {"fetch", "returned"} =>
          qry.state = "SUCCEEDED" /\ qry.retries >= 1
    /\ qry.pages # <<>> => qry.pc \in {"fetch", "returned", "raised"}
    /\ (qry.pc = "raised" /\ qry.err = "Exception") =>
          /\ qry.retries >= 1
          /\ qry.state # "SUCCEEDED"
          /\ qry.state \in {"RUNNING", "QUEUED"} => qry.retries = max_retries

\* A step taken once the loop is over with a state other than SUCCEEDED
\* raises; a step taken while the query runs below the cap polls or raises
PollingStep ==
    /\ (qry.pc = "poll" /\ qry.state \notin {"RUNNING", "QUEUED", "SUCCEEDED"}) =>
          qry'.pc = "raised"
    /\ (qry.pc = "poll" /\ qry.state \in {"RUNNING", "QUEUED"}
          /\ qry.retries = max_retries) => qry'.pc = "raised"
    /\ (qry.pc = "poll" /\ qry.state = "SUCCEEDED") =>
          qry'.pc = "fetch" /\ qry'.retries = qry.retries
    /\ qry.pc = "fetch" =>
          qry'.retries = qry.retries /\ qry'.state = qry.state
    /\ qry'.pc \in {"fetch", "returned"} => qry.state = "SUCCEEDED"

\* C30: once the query is started, execute_athena_query polls its state at
\* least once and at most 30 times, stops at the first state that is neither
\* RUNNING nor QUEUED, fetches and returns rows only when the last state seen
\* is SUCCEEDED, raises in every other case (also when the state is still
\* RUNNING or QUEUED after the 30th poll), and always ends
C30_PollingTerminates ==
    /\ []PollingBounds
    /\ [][PollingStep]_vars
    /\ <>QueryEnded

\* The query still runs at the 30th poll and the call raises
C30_Witness ==
    /\ qry.pc = "raised"
    /\ qry.err = "Exception"
    /\ qry.retries = max_retries
    /\ qry.state \in {"RUNNING", "QUEUED"}

\* C29's case: the query succeeded and pages were fetched whose first page
\* holds the header alone
C29_HeaderAlone ==
    /\ qry.pc = "returned"
    /\ Len(qry.pages) > 1
    /\ qry.pages[1] = <<"h">>
    /\ qry.pages[2] # <<>>

\* The invocation has ended: the handler returned or let an exception out
HandlerEnded == hnd.pc \in {"returned", "raised"}

\* C22: in a non-warmup invocation whose query returns rows and whose
\* detection succeeds, the SNS publish, the Slack notification (when a webhook
\* is configured) and the metrics emission each happen exactly once when the
\* anomaly list is not empty, and none of them happens when it is empty; in
\* both cases the handler returns status code 200 and the detection, which
\* writes the baselines, has run.
C22_NotifiedOnce ==
    (HandlerEnded /\ hnd.event.source # "lambda.warmer"
       /\ hnd.query = "rows" /\ hnd.detect = "returns") =>
        /\ hnd.pc = "returned"
        /\ hnd.status = 200
        /\ hnd.detections = 1
        /\ hnd.sns = (IF hnd.found # <<>> THEN 1 ELSE 0)
        /\ hnd.slack_sent = (IF hnd.found # <<>> /\ hnd.slack THEN 1 ELSE 0)
        /\ hnd.emf = (IF hnd.found # <<>> THEN 1 ELSE 0)

\* C23: when the query step of a non-warmup invocation raises, the handler
\* publishes exactly one error notification and then lets the query's
\* exception out; no anomaly notification is sent, the detection (which reads
\* and writes the baselines) has not run, and the exception is the same when
\* the publish of the error fails.
C23_ErrorNotifiedOnce ==
    (HandlerEnded /\ hnd.event.source # "lambda.warmer" /\ hnd.query = "raises") =>
        /\ hnd.pc = "raised"
        /\ hnd.raised = "Exception"
        /\ hnd.error_tried = 1
        /\ hnd.error_sent = (IF hnd.sns_ok THEN 1 ELSE 0)
        /\ hnd.sns = 0 /\ hnd.slack_sent = 0 /\ hnd.emf = 0
        /\ hnd.detections = 0

\* C24: an invocation whose event has source 'lambda.warmer' returns status
\* code 200 in its first step: no query is started, no detection runs (so no
\* baseline is read or written) and nothing is notified.
C24_WarmupReturns ==
    (hnd.event.source = "lambda.warmer" /\ hnd.pc # "start") =>
        /\ hnd.pc = "returned"
        /\ hnd.status = 200
        /\ hnd.body = "Warmed up!"
        /\ hnd.queries = 0
        /\ hnd.detections = 0
        /\ hnd.sns = 0 /\ hnd.slack_sent = 0 /\ hnd.emf = 0
        /\ hnd.error_tried = 0
        /\ hnd.anomalies = <<>>

\* A warmup ping has been answered
C24_Witness ==
    /\ hnd.pc = "returned"
    /\ hnd.event.source = "lambda.warmer"
    /\ hnd.query = "rows"
    /\ hnd.found # <<>>

\* A CIDR rule of the matcher matches the key
CidrRuleMatches(m, key) ==
    /\ ip_address(key).ok
    /\ \E i \in 1..Len(m.cidrs) : InNetwork(ip_address(key).addr, m.cidrs[i])

\* A URI rule of the matcher, exact or pattern, matches the subkey
UriRuleMatches(m, subkey) ==
    /\ subkey # <<>>
    /\ \/ subkey \in m.exact_uri
       \/ \E i \in 1..Len(m.regex_uri) : Search(m.regex_uri[i], subkey)

\* C28: the enrichment step matches each anomaly with client_ip = its key and
\* uri = its subkey, country and user_agent absent; ioc_matches is attached
\* to an anomaly exactly when a CIDR or a URI rule matches, it holds no
\* country and no user-agent descriptor, and the step changes neither the
\* number nor the order of the anomalies.
C28_EnrichmentByKeyAndSubkey ==
    hnd.pc = "enriched" =>
        /\ Len(hnd.anomalies) = Len(hnd.found)
        /\ \A i \in 1..Len(hnd.found) :
              \A a \in {hnd.anomalies[i]}, f \in {hnd.found[i]} :
                 /\ a.key = f.key /\ a.subkey = f.subkey
                 /\ a.tagged <=> /\ ioc_config # NoMatcher
                                 /\ \/ CidrRuleMatches(ioc_config, f.key)
                                    \/ UriRuleMatches(ioc_config, f.subkey)
                 /\ a.tagged => a.ioc_matches # <<>>
                 /\ ~a.tagged => a.ioc_matches = <<>>
                 /\ \A j \in 1..Len(a.ioc_matches) :
                       a.ioc_matches[j][1] \in {"CIDR", "URI_Exact", "URI_Regex"}
                 /\ RulesOf("CIDR", a.ioc_matches) # <<>>
                       <=> (ioc_config # NoMatcher /\ CidrRuleMatches(ioc_config, f.key))

\* Two anomalies were enriched: the first got ioc_matches, the second did not
C28_Witness ==
    /\ hnd.pc = "enriched"
    /\ Len(hnd.anomalies) = 2
    /\ hnd.anomalies[1].tagged
    /\ ~hnd.anomalies[2].tagged
    /\ ioc_config # NoMatcher

\* The rounding of the score: one unit of its last place
ScoreUlp == 1

ChainGroup(dps) == SortedGroup(dps, EA)

\* One EWMA update of a baseline with a value: (mean', clamped std')
Updated(b, value, a) ==
    CHOOSE u \in {[mean |-> mean,
                   std |-> UpdatedStd(a, b.std, value - mean)] :
                  mean \in {UpdatedMean(a, b.mean, value)}} : TRUE

\* The bootstrap of the first batch, then one update per batch with the
\* batch's value under test
RECURSIVE ChainFold(_, _)
ChainFold(batches, a) ==
    CHOOSE u \in {Updated(b, CurrentValue(ChainGroup(batches[Len(batches)])), a) :
                  b \in {IF Len(batches) = 1
                         THEN TrainedBaseline(SeriesValues(ChainGroup(batches[1])), a)
                         ELSE ChainFold(SubSeq(batches, 1, Len(batches) - 1), a)}} : TRUE

Aborted == store_error /\ pc = "raised"

\* C27: when a store failure ends detect_anomalies while it processes a
\* group, the groups processed before keep their new records (no rollback),
\* the objects of the groups not yet processed are as they were before the
\* call, and a cold-start group whose bootstrap was saved and whose update
\* save failed is left with its bootstrap record (without last_updated).
C27_PartiallyUpdated ==
    Aborted =>
        \A G \in {Groups} :
           /\ \A j \in 1..(gi - 1) :
                 store[get_baseline_key(G[j])]
                    = RecordBlob(scores[j].updated_mean, scores[j].updated_std, TRUE)
           /\ \A j \in (gi + 1)..Len(G) :
                 store[get_baseline_key(G[j])] = store0[get_baseline_key(G[j])]
           /\ (Len(scores) = gi /\ scores[gi].trained) =>
                 store[get_baseline_key(G[gi])]
                    = RecordBlob(scores[gi].baseline.mean, scores[gi].baseline.std, FALSE)

====
